---- MODULE Spec2Model ----
(***************************************************************************)
(* Drive search with a local embedding index.                              *)
(*                                                                         *)
(*   pdf_extractor.sync_pdfs       selective re-index of embeddings.json   *)
(*   advanced_main.check_drive_sync reconciliation check (+ re-index)      *)
(*   advanced_main.hybrid_search_endpoint  merge of drive + semantic hits  *)
(*                                                                         *)
(* Python values are modelled as follows.  A dict keyed by document id is  *)
(* a sequence of records with pairwise distinct ids (Python dicts keep     *)
(* insertion order).  A modifiedTime is a string, i.e. a sequence of       *)
(* digits compared lexicographically as Python compares str; None, a       *)
(* missing key and "" are all falsy in the code and are the empty          *)
(* sequence.  Pass-through metadata (mimeType, createdTime, webViewLink,   *)
(* size) is not modelled.                                                  *)
(***************************************************************************)
EXTENDS Integers, Sequences, FiniteSets, TLC

\* ---------------------------------------------------------------- bounds
MaxDocs == 2        \* document ids are 1..MaxDocs
MaxStamp == 2       \* distinct modifiedTime values a remote file can carry
MaxRuns == 2        \* runs of the script between two changes of the Drive
MaxChecks == 1      \* calls of check_drive_sync between two changes of the Drive
MaxLocal == 3       \* documents of the store and of the Drive in a hybrid search

\* pageSize of the two full listings (files().list(..., pageSize=1000))
PageSize == 1000

Ids == 1..MaxDocs

\* ------------------------------------------------------------ timestamps
NoTime == <<>>
\* An ISO-8601 stamp has a fixed width: two digits here.
Stamp(n) == <<n \div 10, n % 10>>
Times == {Stamp(n) : n \in 1..MaxStamp}
OptTimes == Times \cup {NoTime}

\* Python truthiness of a str / None
Truthy(s) == Len(s) > 0

\* Python  s > t  on str: lexicographic, a proper prefix is smaller
RECURSIVE StrGreater(_, _)
StrGreater(s, t) ==
    IF s = <<>> THEN FALSE
    ELSE IF t = <<>> THEN TRUE
    ELSE IF Head(s) /= Head(t) THEN Head(s) > Head(t)
    ELSE StrGreater(Tail(s), Tail(t))

\* ------------------------------------------------------------- dict model
Keys(d) == {d[i].id : i \in 1..Len(d)}
Get(d, k) == d[CHOOSE i \in 1..Len(d) : d[i].id = k]

\* d[item.id] = item : an existing key keeps its position, a new key goes last
DictPut(d, item) ==
    IF item.id \in Keys(d)
    THEN [i \in 1..Len(d) |-> IF d[i].id = item.id THEN item ELSE d[i]]
    ELSE Append(d, item)

\* {item["id"]: item for item in items}
RECURSIVE DictFromList(_)
DictFromList(items) ==
    IF items = <<>> THEN <<>>
    ELSE DictPut(DictFromList(SubSeq(items, 1, Len(items) - 1)), items[Len(items)])

\* the injective sequences enumerating the set S
Orders(S) ==
    {s \in [1..Cardinality(S) -> S] : \A i, j \in 1..Cardinality(S) : s[i] = s[j] => i = j}

Prefix(s, n) == SubSeq(s, 1, IF Len(s) < n THEN Len(s) ELSE n)

\* ------------------------------------------------------------ the remote
\* a str is a sequence of one-character strings
DocName(id) ==
    IF id = 1 THEN <<"A", "b">>
    ELSE IF id = 2 THEN <<"b", "c">>
    ELSE IF id = 3 THEN <<"c">>
    ELSE <<"d">>

\* files().list(q="mimeType='application/pdf' and trashed = false",
\*              pageSize=1000).execute().get("files", [])
\* for a given enumeration order of the remote files
DriveFile(rem, id) == [id |-> id, name |-> DocName(id), modifiedTime |-> rem[id].modifiedTime]
ListFiles(rem, order) == Prefix([i \in 1..Len(order) |-> DriveFile(rem, order[i])], PageSize)
Listings(rem) == {ListFiles(rem, o) : o \in Orders({id \in Ids : rem[id].present})}

\* ------------------------------------------------- external collaborators
\* What happens to one document inside the loop of sync_pdfs:
\*   fetch_fail     MediaIoBaseDownload raises           (outer except)
\*   extract_fail   PyPDF2 raises, embedding succeeds    (inner except)
\*   extract_embed_fail  PyPDF2 raises, then embeddings.create raises
\*   embed_fail     embeddings.create raises             (outer except)
Outcomes == {"ok", "fetch_fail", "extract_fail", "embed_fail", "extract_embed_fail"}
FetchFails(o) == o = "fetch_fail"
ExtractFails(o) == o \in {"extract_fail", "extract_embed_fail"}
EmbedFails(o) == o \in {"embed_fail", "extract_embed_fail"}

\* text after lines 112-123; a document body is taken to hold some text, so
\* the placeholder of line 123 is not drawn
ExtractedText(o) ==
    IF ExtractFails(o) THEN "[Eroare la citirea PDF-ului]" ELSE "body"

\* client.embeddings.create(model=..., input=text).data[0].embedding :
\* the provider is a function of its input
EmbeddingOf(text) == IF text = "body" THEN <<1, 0>> ELSE <<1, 1>>

\* ------------------------------------------------------------- sync_pdfs
\* the file is never found
LoadExistingNothing(file) == <<>>

\* lines 61-74: the persisted file as sync_pdfs reads it
LoadExisting(file) == IF file.kind = "ok" THEN DictFromList(file.data) ELSE <<>>

\* lines 80-86: is this listed pdf to be processed
IsNew(pdf, existing_map) == pdf.id \notin Keys(existing_map)
IsModifiedSyncNonStrict(pdf, existing_map) ==
    /\ pdf.id \in Keys(existing_map)
    /\ Truthy(pdf.modifiedTime)
    /\ Truthy(Get(existing_map, pdf.id).modifiedTime)
    /\ ~StrGreater(Get(existing_map, pdf.id).modifiedTime, pdf.modifiedTime)
IsModifiedSync(pdf, existing_map) ==
    /\ pdf.id \in Keys(existing_map)
    /\ Truthy(pdf.modifiedTime)
    /\ Truthy(Get(existing_map, pdf.id).modifiedTime)
    /\ StrGreater(pdf.modifiedTime, Get(existing_map, pdf.id).modifiedTime)
NeedsProcessingAlways(pdf, existing_map) == TRUE
NeedsProcessing(pdf, existing_map) == IsNew(pdf, existing_map) \/ IsModifiedSync(pdf, existing_map)

\* lines 77-86
RECURSIVE ToProcess(_, _)
ToProcess(files, existing_map) ==
    IF files = <<>> THEN <<>>
    ELSE (IF NeedsProcessing(Head(files), existing_map) THEN <<Head(files)>> ELSE <<>>)
         \o ToProcess(Tail(files), existing_map)

\* lines 132-141
DocData(f, text) ==
    [id |-> f.id, name |-> f.name, modifiedTime |-> f.modifiedTime,
     text |-> text, embedding |-> EmbeddingOf(text)]

ErrorEntry(f, what) == [file |-> f.name, error |-> what]

\* lines 95-151: one iteration of the loop on f, from loop state st
ProcessOne(f, o, st) ==
    IF FetchFails(o)
    THEN [st EXCEPT !.fetched = Append(@, f.id),
                    !.errors = Append(@, ErrorEntry(f, "download"))]
    ELSE LET errs1 == IF ExtractFails(o)
                      THEN Append(st.errors, ErrorEntry(f, "extract"))
                      ELSE st.errors
             text == ExtractedText(o)
         IN  IF EmbedFails(o)
             THEN [st EXCEPT !.fetched = Append(@, f.id),
                             !.embed_calls = Append(@, f.id),
                             !.errors = Append(errs1, ErrorEntry(f, "embedding"))]
             ELSE [st EXCEPT !.fetched = Append(@, f.id),
                             !.embed_calls = Append(@, f.id),
                             !.errors = errs1,
                             !.indexed = Append(@, DocData(f, text)),
                             !.existing_map = DictPut(@, DocData(f, text))]

RECURSIVE ProcessLoop(_, _, _)
ProcessLoop(to_process, oracle, st) ==
    IF to_process = <<>> THEN st
    ELSE ProcessLoop(Tail(to_process), oracle,
                     ProcessOne(Head(to_process), oracle[Head(to_process).id], st))

\* lines 153-161: open(embeddings_file, "w") truncates the file before
\* json.dump writes it.
\*   ok          the dump completes
\*   open_fail   open raises: the file is untouched
\*   write_fail  the dump raises part-way: a truncated file is left behind
SaveOutcomes == {"ok", "open_fail", "write_fail"}
SaveFile(file, all_data, how) ==
    IF how = "ok" THEN [kind |-> "ok", data |-> all_data]
    ELSE IF how = "open_fail" THEN file
    ELSE [kind |-> "corrupt", data |-> <<>>]

NoStats == [total_in_drive |-> 0, total_indexed |-> 0, newly_processed |-> 0, errors |-> 0]
EmptyLoop(existing_map) ==
    [fetched |-> <<>>, embed_calls |-> <<>>, errors |-> <<>>, indexed |-> <<>>,
     existing_map |-> existing_map]

Listed(files) == {files[i] : i \in 1..Len(files)}

\* lines 29-56: sync_pdfs() returns early (no OPENAI_API_KEY, the service
\* account cannot authenticate, or the listing raises): nothing is read or
\* written
SyncPdfsEarlyError(file) ==
    [status |-> "error", error |-> "early", stats |-> NoStats,
     listed |-> {}, to_process |-> <<>>, loop |-> EmptyLoop(<<>>),
     writes |-> 0, file_before |-> file, file |-> file]

\* lines 58-182: sync_pdfs() from the listing on: everything the call did,
\* and the file it leaves
SyncPdfs(file, files, oracle, how) ==
    LET existing_map == LoadExisting(file)
        to_process == ToProcess(files, existing_map)
        loop == ProcessLoop(to_process, oracle, EmptyLoop(existing_map))
        all_data == loop.existing_map
    IN  [status |-> IF how = "ok" THEN "success" ELSE "error",
         error |-> IF how = "ok" THEN "" ELSE "save",
         stats |-> IF how = "ok"
                   THEN [total_in_drive |-> Len(files),
                         total_indexed |-> Len(all_data),
                         newly_processed |-> Len(loop.indexed),
                         errors |-> Len(loop.errors)]
                   ELSE NoStats,
         listed |-> Listed(files), to_process |-> to_process, loop |-> loop,
         writes |-> IF how = "open_fail" THEN 0 ELSE 1,
         file_before |-> file,
         file |-> SaveFile(file, all_data, how)]

\* ------------------------------------------------------ check_drive_sync
\* load_embeddings(): only FileNotFoundError is caught
LoadRaises(file) == file.kind = "corrupt"
LoadedDocs(file) == IF file.kind = "ok" THEN file.data ELSE <<>>

MissingSwapped(drive_ids, local_ids) == Keys(local_ids) \ Keys(drive_ids)

\* lines 182-183
MissingInLocal(drive_ids, local_ids) == Keys(drive_ids) \ Keys(local_ids)
ExtraInLocal(drive_ids, local_ids) == Keys(local_ids) \ Keys(drive_ids)

\* lines 185-195 (the ids of the entries appended to modified)
IsModifiedCheck(file_id, drive_ids, local_ids) ==
    LET drive_modified == Get(drive_ids, file_id).modifiedTime
        local_modified == Get(local_ids, file_id).modifiedTime
    IN  Truthy(drive_modified) /\ Truthy(local_modified)
        /\ StrGreater(drive_modified, local_modified)
ModifiedIds(drive_ids, local_ids) ==
    {file_id \in Keys(drive_ids) \cap Keys(local_ids) :
        IsModifiedCheck(file_id, drive_ids, local_ids)}

\* the modified documents are not looked at
IsSyncedButModified(missing_in_local, extra_in_local, modified) ==
    Cardinality(missing_in_local) = 0 /\ Cardinality(extra_in_local) = 0

\* line 197
IsSynced(missing_in_local, extra_in_local, modified) ==
    /\ Cardinality(missing_in_local) = 0
    /\ Cardinality(extra_in_local) = 0
    /\ Cardinality(modified) = 0

\* lines 178-211: the diff and the result dict built from it
Reconcile(drive_files, local_docs) ==
    LET drive_ids == DictFromList(drive_files)
        local_ids == DictFromList(local_docs)
        missing_in_local == MissingInLocal(drive_ids, local_ids)
        extra_in_local == ExtraInLocal(drive_ids, local_ids)
        modified == ModifiedIds(drive_ids, local_ids)
    IN  [missing |-> missing_in_local, extra |-> extra_in_local, modified |-> modified,
         is_synced |-> IsSynced(missing_in_local, extra_in_local, modified),
         drive_total |-> Len(drive_ids), local_total |-> Len(local_ids),
         missing_in_local |-> Cardinality(missing_in_local),
         extra_in_local |-> Cardinality(extra_in_local),
         modified_count |-> Cardinality(modified)]

\* ---------------------------------------------------------- hybrid search
\* str.lower() and the  in  of str
LowerChar(c) == IF c = "A" THEN "a" ELSE IF c = "B" THEN "b" ELSE c
Lower(str) == [i \in 1..Len(str) |-> LowerChar(str[i])]
Contains(str, sub) ==
    \E k \in 0..(Len(str) - Len(sub)) : SubSeq(str, k + 1, k + Len(sub)) = sub

\* cosine_similarity(a, b), lines 295-298.  The float is kept as the exact
\* fraction num/den with den > 0 of sign(a.b) * (a.b)^2 / (|a|^2 |b|^2), which
\* orders and vanishes as the cosine does.
Dot(a, b) == LET D[i \in 0..Len(a)] == IF i = 0 THEN 0 ELSE D[i - 1] + a[i] * b[i]
             IN  D[Len(a)]
CosineSimilarity(a, b) ==
    [num |-> IF Dot(a, b) < 0 THEN -(Dot(a, b) * Dot(a, b)) ELSE Dot(a, b) * Dot(a, b),
     den |-> Dot(a, a) * Dot(b, b)]
\* np.dot raises on vectors of different lengths
CosineRaises(a, b) == Len(a) /= Len(b)

\* 0/0 with numpy's default error state: a warning and nan, no exception
IsNaN(x) == x.den = 0
\* every comparison with nan is false
FloatGreater(x, y) == ~IsNaN(x) /\ ~IsNaN(y) /\ x.num * y.den > y.num * x.den
FloatEqual(x, y) == ~IsNaN(x) /\ ~IsNaN(y) /\ x.num * y.den = y.num * x.den
Zero == [num |-> 0, den |-> 1]
Neg(x) == [num |-> -x.num, den |-> x.den]

\* client.embeddings.create(model=..., input=query).data[0].embedding
QueryEmbedding(query) == IF Lower(query) = <<"a">> THEN <<1, 0>> ELSE <<0, 1>>

\* lines 489-504: the scored list, in the order of docs
RECURSIVE Scored(_, _)
Scored(query_emb, ds) ==
    IF ds = <<>> THEN <<>>
    ELSE (IF CosineRaises(query_emb, Head(ds).embedding) THEN <<>>
          ELSE <<[id |-> Head(ds).id, name |-> Head(ds).name, text |-> Head(ds).text,
                  score |-> CosineSimilarity(query_emb, Head(ds).embedding),
                  modifiedTime |-> Head(ds).modifiedTime]>>)
         \o Scored(query_emb, Tail(ds))

\* list.sort(key=..., reverse=True) is stable: x goes before the first element
\* whose key is smaller than its own
RECURSIVE InsertByScore(_, _)
InsertByScore(sorted, x) ==
    IF sorted = <<>> THEN <<x>>
    ELSE IF FloatGreater(x.score, Head(sorted).score) THEN <<x>> \o sorted
    ELSE <<Head(sorted)>> \o InsertByScore(Tail(sorted), x)

RECURSIVE SortByScore(_)
SortByScore(scored) ==
    IF scored = <<>> THEN <<>>
    ELSE InsertByScore(SortByScore(SubSeq(scored, 1, Len(scored) - 1)), scored[Len(scored)])

\* search_semantic_internal(query, top_n), lines 478-511
SearchSemanticInternal(query, top_n, ds, embed_fails) ==
    IF embed_fails THEN <<>>
    ELSE Prefix(SortByScore(Scored(QueryEmbedding(query), ds)), top_n)

\* search_drive_internal(query, filters), lines 453-476
SearchDriveInternal(found, list_fails) == IF list_fails THEN <<>> ELSE found

NoScore == [present |-> FALSE, num |-> 0, den |-> 1]
SomeScore(x) == [present |-> TRUE, num |-> x.num, den |-> x.den]

\* lines 384-395
LocalResult(sem_result) ==
    [source |-> "local", id |-> sem_result.id, name |-> sem_result.name,
     modifiedTime |-> sem_result.modifiedTime,
     score_semantic |-> SomeScore(sem_result.score), title_hit |-> FALSE]

\* lines 402-418
DriveResult(drive_file, query) ==
    [source |-> "drive", id |-> drive_file.id, name |-> drive_file.name,
     modifiedTime |-> drive_file.modifiedTime,
     score_semantic |-> NoScore,
     title_hit |-> Contains(Lower(drive_file.name), Lower(query))]

\* has this id been seen: lines 382 and 399
Seen(merged, id) == \E i \in 1..Len(merged) : merged[i].id = id

\* lines 380-395
RECURSIVE AddSemantic(_, _)
AddSemantic(merged, semantic_results) ==
    IF semantic_results = <<>> THEN merged
    ELSE AddSemantic(IF Seen(merged, Head(semantic_results).id) THEN merged
                     ELSE Append(merged, LocalResult(Head(semantic_results))),
                     Tail(semantic_results))

\* every drive file is appended, seen or not
AddDriveNoDedup(merged, drive_results, query) ==
    merged \o [i \in 1..Len(drive_results) |-> DriveResult(drive_results[i], query)]

\* lines 398-418
RECURSIVE AddDrive(_, _, _)
AddDrive(merged, drive_results, query) ==
    IF drive_results = <<>> THEN merged
    ELSE AddDrive(IF Seen(merged, Head(drive_results).id) THEN merged
                  ELSE Append(merged, DriveResult(Head(drive_results), query)),
                  Tail(drive_results), query)

\* sort_key(item), lines 421-425
SortKey(item) ==
    [score |-> IF item.score_semantic.present
                  /\ (item.score_semantic.num /= 0 \/ IsNaN(item.score_semantic))
               THEN Neg(item.score_semantic) ELSE Zero,
     title |-> IF item.title_hit THEN -1 ELSE 0,
     time |-> item.modifiedTime]

\* tuple comparison of two sort keys
KeyGreater(k1, k2) ==
    IF ~FloatEqual(k1.score, k2.score) THEN FloatGreater(k1.score, k2.score)
    ELSE IF k1.title /= k2.title THEN k1.title > k2.title
    ELSE StrGreater(k1.time, k2.time)

\* merged.sort(key=sort_key, reverse=True), line 427
RECURSIVE InsertByKey(_, _)
InsertByKey(sorted, x) ==
    IF sorted = <<>> THEN <<x>>
    ELSE IF KeyGreater(SortKey(x), SortKey(Head(sorted))) THEN <<x>> \o sorted
    ELSE <<Head(sorted)>> \o InsertByKey(Tail(sorted), x)

RECURSIVE SortMerged(_)
SortMerged(merged) ==
    IF merged = <<>> THEN <<>>
    ELSE InsertByKey(SortMerged(SubSeq(merged, 1, Len(merged) - 1)), merged[Len(merged)])

\* req.top_n or 10, line 371
DefaultTopN == 10
TopN(top_n) == IF top_n = 0 THEN DefaultTopN ELSE top_n

\* lines 376-427: the merged, ranked list
Merge(query, semantic_results, drive_results) ==
    SortMerged(AddDrive(AddSemantic(<<>>, semantic_results), drive_results, query))

HybridResponse(query, top_n, embed_fails, list_fails, semantic_results, drive_results) ==
    [status |-> "ok", query |-> query, top_n |-> top_n,
     semantic_failed |-> embed_fails, drive_failed |-> list_fails,
     semantic_results |-> semantic_results, drive_results |-> drive_results,
     results |-> Merge(query, semantic_results, drive_results)]

\* raise HTTPException(status_code=500), line 450
HybridError(query, top_n, embed_fails, list_fails) ==
    [status |-> "error", query |-> query, top_n |-> top_n,
     semantic_failed |-> embed_fails, drive_failed |-> list_fails,
     semantic_results |-> <<>>, drive_results |-> <<>>, results |-> <<>>]

\* a failing branch takes the whole request down
HybridSearchUncaught(query, top_n, ds, found, embed_fails, list_fails) ==
    IF embed_fails \/ list_fails
    THEN HybridError(query, TopN(top_n), embed_fails, list_fails)
    ELSE HybridResponse(query, TopN(top_n), embed_fails, list_fails,
                        SearchSemanticInternal(query, TopN(top_n), ds, FALSE), found)

\* hybrid_search_endpoint(req), lines 368-446 (the GPT answer is not modelled:
\* generate_hybrid_answer catches its own failures)
HybridSearch(query, top_n, ds, found, embed_fails, list_fails) ==
    HybridResponse(query, TopN(top_n), embed_fails, list_fails,
                   SearchSemanticInternal(query, TopN(top_n), ds, embed_fails),
                   SearchDriveInternal(found, list_fails))

\* ----------------------------------------------------------------- state
VARIABLES
    remote,      \* the Drive: id -> [present, modifiedTime]
    store,       \* embeddings.json: [kind: absent | ok | corrupt, data]
    docs,        \* advanced_main.docs, the in-memory copy
    sync_out,    \* what the latest sync_pdfs call did; cleared when the Drive changes
    prev_sync,   \* the sync_pdfs call before it, when the Drive did not change in between
    check_out,   \* what the latest check_drive_sync call did; cleared likewise
    hybrid_out,  \* what the latest hybrid search returned
    calls        \* operations run since the Drive last changed

vars == <<remote, store, docs, sync_out, prev_sync, check_out, hybrid_out, calls>>

AbsentFile == [kind |-> "absent", data |-> <<>>]
NoRemoteFile == [present |-> FALSE, modifiedTime |-> NoTime]

NoSync ==
    [status |-> "none", error |-> "", stats |-> NoStats,
     listed |-> {}, to_process |-> <<>>, loop |-> EmptyLoop(<<>>),
     writes |-> 0, file_before |-> AbsentFile, file |-> AbsentFile]
NoPrev == "none"
NoReport == Reconcile(<<>>, <<>>)
NoCheck ==
    [outcome |-> "none", files |-> <<>>, local |-> <<>>, report |-> NoReport,
     ran_sync |-> FALSE, returned |-> "none"]
NoHybrid ==
    [status |-> "none", query |-> <<>>, top_n |-> 0,
     semantic_failed |-> FALSE, drive_failed |-> FALSE,
     semantic_results |-> <<>>, drive_results |-> <<>>, results |-> <<>>]

\* a run that saved and upserted every document it selected
Complete(run) == run.status = "success" /\ Len(run.loop.indexed) = Len(run.to_process)

Init ==
    /\ remote = [id \in Ids |-> NoRemoteFile]
    /\ store = AbsentFile
    /\ docs = <<>>               \* load_embeddings() at import, no file yet
    /\ sync_out = NoSync
    /\ prev_sync = NoPrev
    /\ check_out = NoCheck
    /\ hybrid_out = NoHybrid
    /\ calls = 0

\* ----------------------------------------------------- the Drive changes
RemoteChanged(rem) ==
    /\ remote' = rem
    /\ sync_out' = NoSync
    /\ prev_sync' = NoPrev
    /\ check_out' = NoCheck
    /\ calls' = 0
    /\ UNCHANGED <<store, docs, hybrid_out>>

RemoteAdd(id, t) ==
    /\ ~remote[id].present
    /\ RemoteChanged([remote EXCEPT ![id] = [present |-> TRUE, modifiedTime |-> t]])

RemoteModify(id, t) ==
    /\ remote[id].present
    /\ remote[id].modifiedTime /= t
    /\ RemoteChanged([remote EXCEPT ![id].modifiedTime = t])

RemoteDelete(id) ==
    /\ remote[id].present
    /\ RemoteChanged([remote EXCEPT ![id] = NoRemoteFile])

RemoteStep ==
    \/ \E id \in Ids, t \in OptTimes : RemoteAdd(id, t)
    \/ \E id \in Ids, t \in OptTimes : RemoteModify(id, t)
    \/ \E id \in Ids : RemoteDelete(id)

\* --------------------------------------------------------- the operations
RecordSync(run) ==
    /\ sync_out' = run
    /\ prev_sync' = IF sync_out.status /= "none"
                    THEN (IF Complete(sync_out) THEN "complete"
                          ELSE IF sync_out.status = "success" THEN "partial"
                          ELSE "failed")
                    ELSE NoPrev

\* the outcomes the collaborators can have on the documents a run selects
SelectedIds(file, files) ==
    {files[i].id : i \in {j \in 1..Len(files) : NeedsProcessing(files[j], LoadExisting(file))}}
OraclesFor(file, files) == [SelectedIds(file, files) -> Outcomes]

\* python pdf_extractor.py : sync_pdfs() returns before the listing is read
RunSyncPdfsEarlyError ==
    /\ calls < MaxRuns
    /\ calls' = calls + 1
    /\ RecordSync(SyncPdfsEarlyError(store))
    /\ UNCHANGED <<remote, store, docs, check_out, hybrid_out>>

\* python pdf_extractor.py : sync_pdfs() on its own
RunSyncPdfs ==
    /\ calls < MaxRuns
    /\ calls' = calls + 1
    /\ \E files \in Listings(remote) :
         \E oracle \in OraclesFor(store, files), how \in SaveOutcomes :
            LET run == SyncPdfs(store, files, oracle, how)
            IN  /\ store' = run.file
                /\ RecordSync(run)
                /\ UNCHANGED <<remote, docs, check_out, hybrid_out>>

\* check_drive_sync(), line 170: load_embeddings() raises on a corrupt file
CheckLoadRaises ==
    /\ calls < MaxChecks
    /\ calls' = calls + 1
    /\ LoadRaises(store)
    /\ check_out' = [NoCheck EXCEPT !.outcome = "raised", !.returned = "exception"]
    /\ UNCHANGED <<remote, store, docs, sync_out, prev_sync, hybrid_out>>

\* check_drive_sync(), lines 172-176 raise: the except of line 222
CheckListFails ==
    /\ calls < MaxChecks
    /\ calls' = calls + 1
    /\ ~LoadRaises(store)
    /\ docs' = LoadedDocs(store)
    /\ check_out' = [NoCheck EXCEPT !.outcome = "error", !.local = LoadedDocs(store),
                                    !.returned = "error"]
    /\ UNCHANGED <<remote, store, sync_out, prev_sync, hybrid_out>>

\* check_drive_sync(), nothing differs: the result dict is returned
CheckSynced ==
    /\ calls < MaxChecks
    /\ calls' = calls + 1
    /\ ~LoadRaises(store)
    /\ \E files \in Listings(remote) :
        LET report == Reconcile(files, LoadedDocs(store))
        IN  /\ report.is_synced
            /\ docs' = LoadedDocs(store)
            /\ check_out' = [outcome |-> "synced", files |-> files,
                             local |-> LoadedDocs(store), report |-> report,
                             ran_sync |-> FALSE, returned |-> "report"]
    /\ UNCHANGED <<remote, store, sync_out, prev_sync, hybrid_out>>

\* check_drive_sync(), lines 213-217: sync_pdfs() and load_embeddings() again
CheckDone(files, run) ==
    LET report == Reconcile(files, LoadedDocs(store))
    IN  /\ ~report.is_synced
        /\ store' = run.file
        /\ RecordSync(run)
        /\ docs' = IF LoadRaises(run.file) THEN LoadedDocs(store) ELSE LoadedDocs(run.file)
        /\ check_out' = [outcome |-> "resynced", files |-> files,
                         local |-> LoadedDocs(store), report |-> report,
                         ran_sync |-> TRUE,
                         returned |-> IF LoadRaises(run.file) THEN "error"
                                      ELSE "sync_result"]
        /\ UNCHANGED <<remote, hybrid_out>>

CheckResyncEarlyError ==
    /\ calls < MaxChecks
    /\ calls' = calls + 1
    /\ ~LoadRaises(store)
    /\ \E files \in Listings(remote) : CheckDone(files, SyncPdfsEarlyError(store))

CheckResync ==
    /\ calls < MaxChecks
    /\ calls' = calls + 1
    /\ ~LoadRaises(store)
    /\ \E files \in Listings(remote), files2 \in Listings(remote) :
       \E oracle \in OraclesFor(store, files2), how \in SaveOutcomes :
        CheckDone(files, SyncPdfs(store, files2, oracle, how))

\* the server: check_drive_sync against a changing Drive
Next ==
    \/ RemoteStep
    \/ CheckLoadRaises
    \/ CheckListFails
    \/ CheckSynced
    \/ CheckResyncEarlyError
    \/ CheckResync

Spec == Init /\ [][Next]_vars

\* the script: sync_pdfs run on its own against a changing Drive
NextScript ==
    \/ RemoteStep
    \/ RunSyncPdfsEarlyError
    \/ RunSyncPdfs

SpecScript == Init /\ [][NextScript]_vars

\* ------------------------------------------------------ the hybrid search
SearchIds == 1..MaxLocal
Texts == {"body", "[Eroare la citirea PDF-ului]"}
Queries == {<<"a">>, <<"B">>}
TopNs == {0, 2}          \* top_n absent (or 0), and a top_n that truncates

RemoteFile(id, t) == [id |-> id, name |-> DocName(id), modifiedTime |-> t]

\* the ids of S in increasing order
RECURSIVE Ascending(_)
Ascending(S) ==
    IF S = {} THEN <<>>
    ELSE LET m == CHOOSE x \in S : \A y \in S : x <= y
         IN  <<m>> \o Ascending(S \ {m})

\* stores sync_pdfs can have written: pairwise distinct ids, every record built
\* by DocData from a listed file.  The records are taken in increasing id
\* order; every id draws its time and text independently, so any two records
\* occur in either relative order of score, title and time.
StoresOn(S) ==
    {[i \in 1..Cardinality(S) |->
        DocData(RemoteFile(Ascending(S)[i], v[Ascending(S)[i]][1]), v[Ascending(S)[i]][2])] :
        v \in [S -> OptTimes \X Texts]}
LocalStores == UNION {StoresOn(S) : S \in SUBSET SearchIds}

\* pageSize of the search listing, line 470
DrivePageSize == 20

\* files().list(q=..., orderBy="modifiedTime desc", pageSize=20): some files
\* of the Drive, newest first
NewestFirst(fs) == \A i, j \in 1..Len(fs) : i < j => ~StrGreater(fs[j].modifiedTime, fs[i].modifiedTime)
AnswersOn(S) ==
    {fs \in {[i \in 1..Cardinality(S) |-> RemoteFile(o[i], t[o[i]])] :
                o \in Orders(S), t \in [S -> OptTimes]} : NewestFirst(fs)}
DriveAnswers == {Prefix(fs, DrivePageSize) : fs \in UNION {AnswersOn(S) : S \in SUBSET SearchIds}}

InitSearch ==
    /\ remote = [id \in Ids |-> NoRemoteFile]
    /\ store = AbsentFile
    /\ docs \in LocalStores
    /\ sync_out = NoSync
    /\ prev_sync = NoPrev
    /\ check_out = NoCheck
    /\ hybrid_out = NoHybrid
    /\ calls = 0

\* POST /hybrid-search
HybridSearchEndpoint ==
    /\ hybrid_out = NoHybrid
    /\ \E query \in Queries, top_n \in TopNs, found \in DriveAnswers,
          embed_fails \in BOOLEAN, list_fails \in BOOLEAN :
        hybrid_out' = HybridSearch(query, top_n, docs, found, embed_fails, list_fails)
    /\ UNCHANGED <<remote, store, docs, sync_out, prev_sync, check_out, calls>>

\* the response has gone to the caller
HybridResponded ==
    /\ hybrid_out /= NoHybrid
    /\ hybrid_out' = NoHybrid
    /\ UNCHANGED <<remote, store, docs, sync_out, prev_sync, check_out, calls>>

NextSearch == HybridSearchEndpoint \/ HybridResponded

SpecSearch == InitSearch /\ [][NextSearch]_vars

\* ------------------------------------------- the save and its readers
\* The save of sync_pdfs step by step, with load_embeddings() of the server
\* process reading the same file in between.
\* open(embeddings_file, "w"), line 157: the file is empty from here on, and
\* holds a prefix of the dump until json.dump returns; neither parses
Truncated == [kind |-> "corrupt", data |-> <<>>]

\* files sync_pdfs can have left behind, and no file at all
SavedFiles == {AbsentFile} \cup {[kind |-> "ok", data |-> d] : d \in UNION {StoresOn(S) : S \in SUBSET Ids}}
Remotes == [Ids -> {NoRemoteFile} \cup {[present |-> TRUE, modifiedTime |-> t] : t \in OptTimes}]

InitSave ==
    /\ remote \in Remotes
    /\ store \in SavedFiles
    /\ docs = <<>>
    /\ sync_out = NoSync
    /\ prev_sync = NoPrev
    /\ check_out = NoCheck
    /\ hybrid_out = NoHybrid
    /\ calls = 0

\* sync_pdfs() up to and including line 157
SaveOpen ==
    /\ sync_out.status = "none"
    /\ \E files \in Listings(remote) :
         \E oracle \in OraclesFor(store, files) :
            sync_out' = [SyncPdfs(store, files, oracle, "ok") EXCEPT
                            !.status = "saving", !.stats = NoStats, !.file = Truncated]
    /\ store' = Truncated
    /\ UNCHANGED <<remote, docs, prev_sync, check_out, hybrid_out, calls>>

\* json.dump returns, line 158, and the function returns its statistics
SaveDump ==
    /\ sync_out.status = "saving"
    /\ store' = SaveFile(store, sync_out.loop.existing_map, "ok")
    /\ sync_out' = [sync_out EXCEPT
                        !.status = "success",
                        !.file = SaveFile(store, sync_out.loop.existing_map, "ok"),
                        !.stats = [total_in_drive |-> Cardinality(sync_out.listed),
                                   total_indexed |-> Len(sync_out.loop.existing_map),
                                   newly_processed |-> Len(sync_out.loop.indexed),
                                   errors |-> Len(sync_out.loop.errors)]]
    /\ UNCHANGED <<remote, docs, prev_sync, check_out, hybrid_out, calls>>

\* json.dump raises or the process is killed part-way, lines 158-161
SaveDumpFails ==
    /\ sync_out.status = "saving"
    /\ store' = SaveFile(store, sync_out.loop.existing_map, "write_fail")
    /\ sync_out' = [sync_out EXCEPT !.status = "error", !.error = "save"]
    /\ UNCHANGED <<remote, docs, prev_sync, check_out, hybrid_out, calls>>

\* load_embeddings() in the server process, lines 42-50
LoadEmbeddings ==
    /\ check_out.outcome = "none"
    /\ check_out' = [NoCheck EXCEPT
                        !.outcome = IF LoadRaises(store) THEN "raised" ELSE "loaded",
                        !.local = LoadedDocs(store),
                        !.returned = IF LoadRaises(store) THEN "exception" ELSE "none"]
    /\ docs' = IF LoadRaises(store) THEN docs ELSE LoadedDocs(store)
    /\ UNCHANGED <<remote, store, sync_out, prev_sync, hybrid_out, calls>>

NextSave == SaveOpen \/ SaveDump \/ SaveDumpFails \/ LoadEmbeddings

SpecSave == InitSave /\ [][NextSave]_vars

\* ----------------------------------------------- a Drive beyond one page
\* files().list(pageSize=1000).execute() is called once and nextPageToken is
\* never read (advanced_main.py 172-178, pdf_extractor.py 50-58): the files
\* diffed are the first page.  The Drive holds, besides the documents of Ids,
\* `ahead` other PDFs that the enumeration returns first; the document at
\* place i of order is the (ahead + i)-th file of the enumeration.
OthersAhead == {0, PageSize - 1, PageSize}
ListPage(rem, order, ahead) ==
    [i \in 1..(IF ahead + Len(order) <= PageSize THEN Len(order)
               ELSE IF ahead >= PageSize THEN 0 ELSE PageSize - ahead)
        |-> DriveFile(rem, order[i])]
FirstPages(rem) ==
    {ListPage(rem, o, ahead) : o \in Orders({id \in Ids : rem[id].present}), ahead \in OthersAhead}

\* check_drive_sync(), lines 172-211: the listing and the diff
CheckListing ==
    /\ check_out.outcome = "none"
    /\ \E files \in FirstPages(remote) :
        check_out' = [outcome |-> "listed", files |-> files,
                      local |-> LoadedDocs(store),
                      report |-> Reconcile(files, LoadedDocs(store)),
                      ran_sync |-> FALSE, returned |-> "none"]
    /\ UNCHANGED <<remote, store, docs, sync_out, prev_sync, hybrid_out, calls>>

\* sync_pdfs(), lines 50-89: the listing and the selection
SyncListing ==
    /\ sync_out.status = "none"
    /\ \E files \in FirstPages(remote) :
        sync_out' = [NoSync EXCEPT !.status = "listed",
                                   !.listed = Listed(files),
                                   !.to_process = ToProcess(files, LoadExisting(store)),
                                   !.file_before = store,
                                   !.file = store]
    /\ UNCHANGED <<remote, store, docs, prev_sync, check_out, hybrid_out, calls>>

NextListing == CheckListing \/ SyncListing

SpecListing == InitSave /\ [][NextListing]_vars

\* ------------------------------------------- scoring a store as found
\* embeddings.json is read as it is: the "embedding" of a record is whatever
\* list the file holds.  <<>> is the empty list and also stands for a record
\* without the key: np.dot raises on the first, d["embedding"] on the second,
\* both inside the try of line 490.
Vectors == {<<1, 0>>, <<1, 1>>, <<0, 0>>, <<1>>, <<>>}
\* Two records: a list holding one nan and another score is left in its
\* order by list.sort, as every comparison is false.
ScoringIds == {1, 2}
ScoringStoresOn(S) ==
    {[i \in 1..Cardinality(S) |->
        [id |-> Ascending(S)[i], name |-> DocName(Ascending(S)[i]),
         modifiedTime |-> v[Ascending(S)[i]][1], text |-> "body",
         embedding |-> v[Ascending(S)[i]][2]]] :
        v \in [S -> OptTimes \X Vectors]}
ScoringStores == UNION {ScoringStoresOn(S) : S \in SUBSET ScoringIds}

InitScoring ==
    /\ remote = [id \in Ids |-> NoRemoteFile]
    /\ store = AbsentFile
    /\ docs \in ScoringStores
    /\ sync_out = NoSync
    /\ prev_sync = NoPrev
    /\ check_out = NoCheck
    /\ hybrid_out = NoHybrid
    /\ calls = 0

\* search_semantic_internal(query, top_n), lines 478-511, on its own
SearchSemantic ==
    /\ hybrid_out = NoHybrid
    /\ \E query \in Queries, top_n \in TopNs, embed_fails \in BOOLEAN :
        hybrid_out' = [NoHybrid EXCEPT
                          !.status = "semantic", !.query = query, !.top_n = TopN(top_n),
                          !.semantic_failed = embed_fails,
                          !.semantic_results =
                              SearchSemanticInternal(query, TopN(top_n), docs, embed_fails)]
    /\ UNCHANGED <<remote, store, docs, sync_out, prev_sync, check_out, calls>>

NextScoring == SearchSemantic \/ HybridResponded

SpecScoring == InitScoring /\ [][NextScoring]_vars

\* ------------------------------------------------------------ the claims
Results == hybrid_out.results
Answered == hybrid_out.status = "ok"
Ranks == 1..Len(Results)
Scored_(i) == Results[i].score_semantic.present
IdsOf(seq) == {seq[i].id : i \in 1..Len(seq)}

\* C4: of two merged results that both carry a score, the one with the
\* strictly higher score_semantic comes earlier in the output.
C4_DescendingScore ==
    Answered =>
        \A i, j \in Ranks :
            (Scored_(i) /\ Scored_(j)
             /\ FloatGreater(Results[i].score_semantic, Results[j].score_semantic))
            => i < j

\* C5: every merged result without a score ranks below every result that
\* carries one; with the store {a scored} and the Drive answering {a, b} the
\* output is a (local, scored) followed by b (drive, no score).
C5_UnscoredLast ==
    Answered =>
        /\ \A i, j \in Ranks : (Scored_(i) /\ ~Scored_(j)) => i < j
        /\ (IdsOf(docs) = {1} /\ IdsOf(hybrid_out.drive_results) = {1, 2}
            /\ ~hybrid_out.semantic_failed)
           => /\ Len(Results) = 2
              /\ Results[1].id = 1 /\ Results[1].source = "local" /\ Scored_(1)
              /\ Results[2].id = 2 /\ Results[2].source = "drive" /\ ~Scored_(2)

\* C6: no two merged results share an id, and an id returned by both branches
\* appears exactly once, sourced local.
C6_Deduplicated ==
    Answered =>
        /\ \A i, j \in Ranks : Results[i].id = Results[j].id => i = j
        /\ \A id \in IdsOf(hybrid_out.semantic_results) \cap IdsOf(hybrid_out.drive_results) :
              \E i \in Ranks : Results[i].id = id /\ Results[i].source = "local"
C6_Witness ==
    /\ Answered
    /\ IdsOf(hybrid_out.semantic_results) \cap IdsOf(hybrid_out.drive_results) /= {}
    /\ IdsOf(hybrid_out.drive_results) \ IdsOf(hybrid_out.semantic_results) /= {}

\* C7: when one branch fails the request still answers, the failed branch
\* contributes nothing and every result of the other branch is returned; with
\* the Drive failing and three documents in the store (top_n left at its
\* default) the output is the three local results.
Min(a, b) == IF a < b THEN a ELSE b
FromSource(src) == {i \in Ranks : Results[i].source = src}
C7_BranchFailureDegrades ==
    hybrid_out.status /= "none" =>
        /\ Answered
        /\ (hybrid_out.drive_failed /\ ~hybrid_out.semantic_failed) =>
              /\ FromSource("drive") = {}
              /\ Len(Results) = Min(Len(docs), hybrid_out.top_n)
              /\ \A i \in Ranks : Scored_(i) /\ Results[i].id \in IdsOf(docs)
        /\ (hybrid_out.semantic_failed /\ ~hybrid_out.drive_failed) =>
              /\ FromSource("local") = {}
              /\ IdsOf(Results) = IdsOf(hybrid_out.drive_results)
              /\ Len(Results) = Len(hybrid_out.drive_results)
C7_Witness ==
    /\ Answered
    /\ hybrid_out.drive_failed /\ ~hybrid_out.semantic_failed
    /\ Len(docs) = 3
    /\ Len(Results) = 3
    /\ \A i \in Ranks : Results[i].source = "local"

\* --- reconciliation and re-index
Report == check_out.report
Compared == check_out.outcome \in {"synced", "resynced"}
ListedIds == IdsOf(check_out.files)
LocalIds == IdsOf(check_out.local)
Range(seq) == {seq[i] : i \in 1..Len(seq)}
ListedTime(id) == (CHOOSE f \in Range(check_out.files) : f.id = id).modifiedTime
LocalTime(id) == (CHOOSE d \in Range(check_out.local) : d.id = id).modifiedTime
Run == sync_out.loop

\* C1: check_drive_sync computes missing as the ids listed and not stored,
\* extra as the ids stored and not listed, whatever the order of the listing
\* and of the store, and its counts are the sizes of those sets.
C1_SetDifference ==
    Compared =>
        /\ Report.missing = ListedIds \ LocalIds
        /\ Report.extra = LocalIds \ ListedIds
        /\ Report.missing_in_local = Cardinality(ListedIds \ LocalIds)
        /\ Report.extra_in_local = Cardinality(LocalIds \ ListedIds)
C1_Witness ==
    /\ Compared
    /\ Report.missing /= {}
    /\ Report.extra /= {}
    /\ check_out.outcome = "resynced"

\* C2: an id is modified iff it is listed and stored, both modifiedTime values
\* are present and the listed one is strictly greater; sync_pdfs selects, among
\* the stored documents, exactly the ones check_drive_sync calls modified.
C2_ModifiedIff ==
    Compared =>
        /\ Report.modified =
              {id \in ListedIds \cap LocalIds :
                  /\ ListedTime(id) /= NoTime
                  /\ LocalTime(id) /= NoTime
                  /\ StrGreater(ListedTime(id), LocalTime(id))}
        /\ (check_out.ran_sync /\ sync_out.error /= "early")
           => IdsOf(sync_out.to_process) \cap LocalIds = Report.modified
C2_Witness ==
    /\ Compared /\ check_out.ran_sync /\ sync_out.error /= "early"
    /\ Report.modified /= {}
    /\ \E id \in (ListedIds \cap LocalIds) \ Report.modified :
          ListedTime(id) = LocalTime(id) \/ ListedTime(id) = NoTime \/ LocalTime(id) = NoTime

DownloadFailed == {id \in Ids : \E e \in Range(Run.errors) : e = ErrorEntry([name |-> DocName(id)], "download")}
C8_OnlyChangedDocuments ==
    (check_out.outcome = "resynced" /\ sync_out.error /= "early") =>
        LET changed == Report.missing \cup Report.modified
        IN  /\ Range(Run.fetched) = changed
            /\ Len(Run.fetched) = Cardinality(changed)
            /\ Range(Run.embed_calls) = changed \ DownloadFailed
            /\ Len(Run.embed_calls) = Cardinality(changed \ DownloadFailed)
C8_Witness ==
    /\ check_out.outcome = "resynced" /\ sync_out.status = "success"
    /\ Len(check_out.local) = 2
    /\ Report.missing = {}
    /\ Cardinality(Report.modified) = 1
    /\ Range(Run.fetched) = Report.modified
    /\ Run.embed_calls = Run.fetched
    /\ Len(Run.indexed) = 1

\* C9: a pass that saved reports newly_processed as the number of documents
\* it upserted and errors as the number of documents that failed.
FailedNames == {e.file : e \in Range(Run.errors)}
C9_ErrorsCountDocuments ==
    sync_out.status = "success" =>
        /\ sync_out.stats.newly_processed = Len(Run.indexed)
        /\ sync_out.stats.errors = Cardinality(FailedNames)

\* C10: a pass removes no record: every id of the store before the pass is in
\* the store after it, and the record of an id the pass did not select is
\* unchanged.
C10_NeverRemoves ==
    sync_out.status /= "none" =>
        \A r \in Range(LoadedDocs(sync_out.file_before)) :
            /\ r.id \in IdsOf(LoadedDocs(store))
            /\ r.id \notin IdsOf(sync_out.to_process) => r \in Range(LoadedDocs(store))

C12_AllOrNothing ==
    /\ sync_out.status = "error" => store = sync_out.file_before
    /\ (sync_out.status /= "none" /\ check_out.outcome = "loaded")
        => check_out.local \in {LoadedDocs(sync_out.file_before), sync_out.loop.existing_map}
    /\ (sync_out.status /= "none" /\ check_out.outcome = "raised")
        => sync_out.file_before.kind = "corrupt"

\* C13: loading an absent or corrupt file is not an error: check_drive_sync
\* never raises out of load_embeddings, and a run of sync_pdfs that finds no
\* readable file goes on with an empty mapping and selects every listed file.
C13_LoadNeverRaises ==
    /\ check_out.outcome /= "raised"
    /\ (sync_out.status /= "none" /\ sync_out.error /= "early"
            /\ sync_out.file_before.kind /= "ok")
        => IdsOf(sync_out.to_process) = {f.id : f \in sync_out.listed}

\* C14: the listing check_drive_sync and sync_pdfs diff against holds every
\* document of the Drive, so no document of the Drive is reported extra, left
\* out of missing, or left out of the selection of a run.
RemoteIds == {id \in Ids : remote[id].present}
C14_ExhaustiveListing ==
    /\ check_out.outcome = "listed" =>
        /\ ListedIds = RemoteIds
        /\ Report.extra \cap RemoteIds = {}
        /\ RemoteIds \ LocalIds \subseteq Report.missing
    /\ sync_out.status = "listed" =>
        /\ {f.id : f \in sync_out.listed} = RemoteIds
        /\ RemoteIds \ Keys(LoadExisting(sync_out.file_before)) \subseteq IdsOf(sync_out.to_process)

\* C15: of two merged results with equal semantic score (or both without a
\* score), the one with title_hit true comes first; when they agree on
\* title_hit too, the one with the later modifiedTime comes first, an absent
\* modifiedTime counting as the empty string and coming last.
SameScore(i, j) ==
    \/ ~Scored_(i) /\ ~Scored_(j)
    \/ Scored_(i) /\ Scored_(j) /\ FloatEqual(Results[i].score_semantic, Results[j].score_semantic)
C15_TieBreak ==
    Answered =>
        \A i, j \in Ranks :
            SameScore(i, j) =>
                /\ (Results[i].title_hit /\ ~Results[j].title_hit) => i < j
                /\ (Results[i].title_hit = Results[j].title_hit
                    /\ StrGreater(Results[i].modifiedTime, Results[j].modifiedTime)) => i < j

\* C16: for every merged result, local or drive, title_hit is true iff the
\* query is a case-insensitive substring of the name of the result.
C16_TitleHitIff ==
    Answered =>
        \A i \in Ranks :
            Results[i].title_hit <=> Contains(Lower(Results[i].name), Lower(hybrid_out.query))

\* C17: a run of sync_pdfs that selects nothing (nothing missing, nothing
\* modified) does not write the file.
C17_NoWriteWhenUnchanged ==
    (sync_out.status /= "none" /\ sync_out.error /= "early" /\ sync_out.to_process = <<>>)
        => sync_out.writes = 0

\* C18: a stored record whose embedding gives no valid score (a length other
\* than the query embedding's, no embedding, zero norm) contributes no
\* result, every other record is scored, and no returned score is undefined.
ValidEmbedding(d) ==
    /\ Len(d.embedding) = Len(QueryEmbedding(hybrid_out.query))
    /\ Dot(d.embedding, d.embedding) /= 0
C18_InvalidSkipped ==
    (hybrid_out.status = "semantic" /\ ~hybrid_out.semantic_failed
        /\ Len(docs) <= hybrid_out.top_n) =>
        /\ \A r \in Range(hybrid_out.semantic_results) : ~IsNaN(r.score)
        /\ IdsOf(hybrid_out.semantic_results) = {d.id : d \in {x \in Range(docs) : ValidEmbedding(x)}}

====
